---- MODULE Spec2Model ----
(***************************************************************************)
(* flagx: the extended flag set (FlagSet.Parse, the ignore-undefined       *)
(* pre-scan, SubArgs/NextArgs) and the command tree of App (registration,  *)
(* route resolution, the filter chain, Exec).                              *)
(*                                                                         *)
(* An argument token is a sequence of one-character strings, so that the   *)
(* byte tests of the code (s[0] != '-', len(s) < 2, "-" + name) are        *)
(* computed and not assumed: the token -a=1 is <<"-","a","=","1">>.        *)
(***************************************************************************)
EXTENDS Integers, Sequences, FiniteSets, TLC

VARIABLES
    commands,   \* the command tree: commands[1] is the root Command of the App
    notFound,   \* App.notFound is set
    validator,  \* App.validator is set
    fset,       \* the FlagSet under test (its definitions, mode and parse results)
    last,       \* what the most recent call returned to its caller
    calls,      \* the calls running concurrently: the position and the locals of each
    heap,       \* the option structs allocated, by address
    locks       \* Command.lock of each command: the call that holds it, 0 for none

vars == <<commands, notFound, validator, fset, last, calls, heap, locks>>
\* the state of the concurrent calls, which a call made on its own leaves alone
conc == <<calls, heap, locks>>

\* ---------------------------------------------------------------- bounds
MaxArgs == 5        \* longest argument list given to FlagSet.Parse
MaxCmds == 3        \* commands of a tree, the root included
MaxFilters == 2     \* filters registered in a tree that Exec runs on
MaxRegFilters == 1  \* filters registered while the tree is explored call by call
MaxDepth == 2       \* nesting of the commands of a tree that Exec runs on
MaxSpell == 4       \* longest argument list of the spelled-out tokens given to FlagSet.Parse
MaxCalls == 2       \* goroutines calling Exec, or registering, concurrently on one App

\* ---------------------------------------------------------------- status codes
StatusNotFound == 2
StatusParseFailed == 3
StatusValidateFailed == 4
StatusUserFault == StatusValidateFailed + 5   \* a code a filter or action body throws with ThrowStatus
StatusUnknown == 0 - 1   \* the code of the Status made of a recovered value that is not a Status

\* ---------------------------------------------------------------- tokens
TokTerminator == <<"-", "-">>
TokA == <<"-", "a">>
TokB == <<"-", "b">>
TokV == <<"-", "v">>
TokU == <<"-", "u">>
TokG == <<"-", "g">>
TokX == <<"-", "x">>
Tok1 == <<"1">>
Tok2 == <<"2">>
TokAEq1 == <<"-", "a", "=", "1">>
TokAA == <<"-", "-", "a">>
TokAAEq1 == <<"-", "-", "a", "=", "1">>
TokVEq0 == <<"-", "v", "=", "0">>
TokVVEq0 == <<"-", "-", "v", "=", "0">>
TokH == <<"-", "h">>
TokHelpEq1 == <<"-", "-", "h", "e", "l", "p", "=", "1">>
BareX == <<"x">>
BareY == <<"y">>
BareZ == <<"z">>
NameA == <<"a">>
NameB == <<"b">>
NameC == <<"c">>
NameG == <<"g">>
NameV == <<"v">>
NameX == <<"x">>
NameU == <<"u">>
NameH == <<"h">>
NameHelp == <<"h", "e", "l", "p">>
Empty == <<>>

NoErr == "nil"
\* flag.ErrHelp
ErrHelp == "flag: help requested"

\* the index of the first element of s equal to x, 0 when there is none
IndexOf(s, x) ==
    IF \E i \in 1..Len(s) : s[i] = x
    THEN CHOOSE i \in 1..Len(s) : s[i] = x /\ \A j \in 1..(i - 1) : s[j] # x
    ELSE 0

\* SplitArgs(arguments): a leading bare token is the command name
SplitArgs(arguments) ==
    IF Len(arguments) > 0 /\ Len(arguments[1]) > 0 /\ arguments[1][1] # "-"
    THEN [name |-> arguments[1], args |-> Tail(arguments)]
    ELSE [name |-> Empty, args |-> arguments]

\* ---------------------------------------------------------------- typed values
\* strconv.ParseBool on the texts the model's alphabet can spell
BoolTexts == { <<"1">>, <<"t">>, <<"T">>, <<"0">>, <<"f">>, <<"F">> }
BoolTrue == <<"true">>
BoolFalse == <<"false">>

\* Value.Set(text) for a flag of the given kind: [ok, v]
ValueSet(kind, text) ==
    IF kind = "bool"
    THEN IF text \in BoolTexts
         THEN [ok |-> TRUE, v |-> IF text \in { <<"1">>, <<"t">>, <<"T">> } THEN BoolTrue ELSE BoolFalse]
         ELSE [ok |-> FALSE, v |-> Empty]
    ELSE [ok |-> TRUE, v |-> text]

\* ---------------------------------------------------------------- FlagSet
\* NewFlagSet(name, errorHandling): Init clears the ContinueOnUndefined bit
\* into isContinueOnUndefined; the base set is always ContinueOnError here.
NewFlagSet(continueOnUndefined) ==
    [ formal |-> << >>,            \* name -> kind, the base set's definitions
      nonFormal |-> << >>,         \* index -> kind, the declared non-flags
      isContinueOnUndefined |-> continueOnUndefined,
      terminated |-> FALSE,
      actual |-> << >>,            \* name -> bound value
      nonActual |-> << >>,         \* index -> bound value
      args |-> << >>,              \* FlagSet.Args(): what the base scanner left
      parsed |-> FALSE ]

\* FlagSet.Init(name, errorHandling) on a flag set in use: the mode is set
\* anew; the definitions and what was parsed stay
Init(fs, continueOnUndefined) == [fs EXCEPT !.isContinueOnUndefined = continueOnUndefined]

\* what a call that defines a flag or a non-flag leaves: the flag set and the
\* panic it ended in, NoPanic when it returned
NoPanic == ""
Defined(fs, panic) == [fs |-> fs, panic |-> panic]

\* f.Var(value, name, usage) of the base set: a name defined already panics
\* and the definition it has stays
DefineFlag(fs, name, kind) ==
    IF name \in DOMAIN fs.formal THEN Defined(fs, "flag redefined")
    ELSE Defined([fs EXCEPT !.formal = (name :> kind) @@ fs.formal], NoPanic)

\* FlagSet.NonVar(value, index, usage): a negative index panics, and so does
\* an index declared already
NonVar(fs, index, kind) ==
    IF index < 0 THEN Defined(fs, "@index is not a valid slice index")
    ELSE IF index \in DOMAIN fs.nonFormal THEN Defined(fs, "flag redefined")
    ELSE Defined([fs EXCEPT !.nonFormal = (index :> kind) @@ fs.nonFormal], NoPanic)

\* what tidyOneArg returns when it has seen no flag, and when it has seen one
tidyNone(args) ==
    [lastArgs |-> args, terminated |-> FALSE, name |-> Empty,
     hasValue |-> FALSE, value |-> Empty, seen |-> FALSE, err |-> NoErr]
tidyFlag(lastArgs, name, hasValue, value) ==
    [lastArgs |-> lastArgs, terminated |-> FALSE, name |-> name,
     hasValue |-> hasValue, value |-> value, seen |-> TRUE, err |-> NoErr]

\* name = s[numMinuses:], numMinuses being 2 when the second byte is "-"
flagName(s) == SubSeq(s, (IF s[2] = "-" THEN 2 ELSE 1) + 1, Len(s))

\* tidyOneArg, "does it have an argument?": i is the index of the first "="
\* of name (0 for none), rest is args[1:]
tidyValue(rest, name, i) ==
    IF i > 0
    THEN tidyFlag(rest, SubSeq(name, 1, i - 1), TRUE, SubSeq(name, i + 1, Len(name)))
    ELSE IF Len(rest) = 0 THEN tidyFlag(rest, name, FALSE, Empty)
    ELSE IF Len(rest[1]) = 0 \/ rest[1][1] # "-"
    THEN tidyFlag(Tail(rest), name, TRUE, rest[1])
    ELSE tidyFlag(rest, name, FALSE, Empty)

\* tidyOneArg from the syntax test of name on
tidyNamed(args, name) ==
    IF Len(name) = 0 \/ name[1] = "-" \/ name[1] = "="
    THEN [tidyNone(args) EXCEPT !.err = "bad flag syntax"]
    ELSE tidyValue(Tail(args), name, IndexOf(name, "="))

\* tidyOneArg: one step of the pre-scan
tidyOneArg(args) ==
    IF Len(args) = 0 THEN tidyNone(args)
    ELSE IF Len(args[1]) < 2 \/ args[1][1] # "-" THEN tidyNone(args)
    ELSE IF args[1][2] = "-" /\ Len(args[1]) = 2
    THEN [tidyNone(args) EXCEPT !.lastArgs = Tail(args), !.terminated = TRUE]
    ELSE tidyNamed(args, flagName(args[1]))

\* filterArgs with the callback tidyArgs gives it: a wanted flag is appended
\* to tidiedArgs as "-"+name and its value, any other flag is skipped
RECURSIVE filterArgs(_, _, _)
\* the body of the loop of filterArgs once tidyOneArg has returned r
filterOne(r, wanted, tidiedArgs) ==
    IF ~r.seen
    THEN [flagArgs |-> tidiedArgs, nonFlagArgs |-> r.lastArgs,
          terminated |-> r.terminated, err |-> r.err]
    ELSE filterArgs(r.lastArgs, wanted,
                    IF r.name \notin wanted THEN tidiedArgs
                    ELSE IF r.hasValue THEN tidiedArgs \o << <<"-">> \o r.name, r.value >>
                    ELSE tidiedArgs \o << <<"-">> \o r.name >>)

filterArgs(args, wanted, tidiedArgs) == filterOne(tidyOneArg(args), wanted, tidiedArgs)

\* tidyArgs(args, filter) with filter = "the base set defines name"
tidyArgs(args, wanted) == filterArgs(args, wanted, << >>)

\* what parseOne of the standard library returns: [fs, seen, err, stop]
parseResult(f, seen, err, stop) == [fs |-> f, seen |-> seen, err |-> err, stop |-> stop]

\* parseOne, flag.Value.Set: r is what Set returned, f the set with f.args
\* already moved past the flag and its value
parseSet(f, name, r, errText) ==
    IF r.ok
    THEN parseResult([f EXCEPT !.actual = (name :> r.v) @@ f.actual], TRUE, NoErr, "")
    ELSE parseResult(f, FALSE, errText, "error")

\* parseOne from the lookup of name on; rest is f.args[1:], inline says
\* that the token held "=" and ivalue what followed it
parseFlag(fs, rest, name, inline, ivalue) ==
    IF name \notin DOMAIN fs.formal /\ name \in { NameHelp, NameH }
    THEN parseResult([fs EXCEPT !.args = rest], FALSE, ErrHelp, "error")
    ELSE IF name \notin DOMAIN fs.formal
    THEN parseResult([fs EXCEPT !.args = rest], FALSE, "flag provided but not defined", "error")
    ELSE IF fs.formal[name] = "bool"
    THEN parseSet([fs EXCEPT !.args = rest], name,
                  ValueSet("bool", IF inline THEN ivalue ELSE <<"t">>), "invalid boolean value")
    ELSE IF inline
    THEN parseSet([fs EXCEPT !.args = rest], name, ValueSet(fs.formal[name], ivalue), "invalid value")
    ELSE IF Len(rest) > 0
    THEN parseSet([fs EXCEPT !.args = Tail(rest)], name, ValueSet(fs.formal[name], rest[1]),
                  "invalid value")
    ELSE parseResult([fs EXCEPT !.args = rest], FALSE, "flag needs an argument", "error")

\* parseOne from the syntax test of the name on; i is the index of the first
\* "=" of full, 0 for none
parseNamed(fs, full, i) ==
    IF Len(full) = 0 \/ full[1] = "-" \/ full[1] = "="
    THEN parseResult(fs, FALSE, "bad flag syntax", "error")
    ELSE parseFlag(fs, Tail(fs.args),
                   IF i > 0 THEN SubSeq(full, 1, i - 1) ELSE full,
                   i > 0,
                   IF i > 0 THEN SubSeq(full, i + 1, Len(full)) ELSE Empty)

\* flag.FlagSet.parseOne of the standard library
parseOne(fs) ==
    IF Len(fs.args) = 0 THEN parseResult(fs, FALSE, NoErr, "end")
    ELSE IF Len(fs.args[1]) < 2 \/ fs.args[1][1] # "-" THEN parseResult(fs, FALSE, NoErr, "nonflag")
    ELSE IF fs.args[1][2] = "-" /\ Len(fs.args[1]) = 2
    THEN parseResult([fs EXCEPT !.args = Tail(fs.args)], FALSE, NoErr, "terminator")
    ELSE parseNamed(fs, flagName(fs.args[1]), IndexOf(flagName(fs.args[1]), "="))

RECURSIVE parseLoop(_)
\* for { seen, err := f.parseOne(); if seen { continue }; ... }
parseNext(r) == IF r.seen THEN parseLoop(r.fs) ELSE r

parseLoop(fs) == parseNext(parseOne(fs))

\* flag.FlagSet.Parse of the standard library under ContinueOnError
BaseParse(fs, arguments) ==
    parseLoop([fs EXCEPT !.args = arguments, !.parsed = TRUE])

\* FlagSet.parseOneNonFlag: [fs, seen, err]
parseOneNonFlag(fs, index, value) ==
    IF value = TokTerminator
    THEN [fs |-> fs, seen |-> FALSE, err |-> "non-flag defined but not provided"]
    ELSE IF index \notin DOMAIN fs.nonFormal
    THEN [fs |-> fs, seen |-> FALSE, err |-> NoErr]
    ELSE IF ~ValueSet(fs.nonFormal[index], value).ok
    THEN [fs |-> fs, seen |-> FALSE, err |-> "invalid value for non-flag"]
    ELSE [fs |-> [fs EXCEPT !.nonActual =
                      (index :> ValueSet(fs.nonFormal[index], value).v) @@ fs.nonActual],
          seen |-> TRUE, err |-> NoErr]

\* the loop over args at the end of FlagSet.Parse; k is the 0-based index
RECURSIVE nonFlagLoop(_, _, _)
\* the body of that loop once parseOneNonFlag has returned r
nonFlagNext(r, args, k) ==
    IF r.seen THEN nonFlagLoop(r.fs, args, k + 1)
    ELSE [fs |-> r.fs, err |-> r.err]

nonFlagLoop(fs, args, k) ==
    IF k >= Len(args) THEN [fs |-> fs, err |-> NoErr]
    ELSE nonFlagNext(parseOneNonFlag(fs, k, args[k + 1]), args, k)

\* i := len(arguments) - len(args); if i > 0 { i -= 1 }
lastScanned(d) == IF d > 0 THEN d - 1 ELSE d

\* FlagSet.Parse once the base scanner has returned b for the list arguments
parseRest(fs, arguments, b) ==
    IF b.err # NoErr THEN [fs |-> b.fs, err |-> b.err]
    ELSE IF b.fs.terminated THEN [fs |-> b.fs, err |-> NoErr]
    ELSE IF ~fs.isContinueOnUndefined /\ Len(b.fs.args) = 0 THEN [fs |-> b.fs, err |-> NoErr]
    ELSE IF ~fs.isContinueOnUndefined
            /\ arguments[lastScanned(Len(arguments) - Len(b.fs.args)) + 1] = TokTerminator
    THEN [fs |-> [b.fs EXCEPT !.terminated = TRUE], err |-> NoErr]
    ELSE nonFlagLoop(b.fs, b.fs.args, 0)

\* FlagSet.Parse from the call of the base scanner on
parseScan(fs, arguments) == parseRest(fs, arguments, BaseParse(fs, arguments))

\* the list FlagSet.Parse hands to the base scanner in ignore-undefined mode:
\* the wanted flags, "--" if tidyArgs met one, the arguments it left
tidied(t) ==
    t.flagArgs \o (IF t.terminated THEN <<TokTerminator>> ELSE << >>) \o t.nonFlagArgs

\* FlagSet.Parse in ignore-undefined mode once tidyArgs has returned t
parseTidied(fs, t) ==
    IF t.err # NoErr THEN [fs |-> fs, err |-> t.err]
    ELSE parseScan([fs EXCEPT !.terminated = t.terminated], tidied(t))

\* FlagSet.Parse: [fs, err]
Parse(fs, arguments0) ==
    IF fs.isContinueOnUndefined
    THEN parseTidied(fs, tidyArgs(SplitArgs(arguments0).args, DOMAIN fs.formal))
    ELSE parseScan(fs, SplitArgs(arguments0).args)

SubArgs_AllArgs(fs) == fs.args

\* FlagSet.SubArgs: the arguments of the next subcommand
SubArgs(fs) ==
    IF fs.terminated THEN fs.args
    ELSE LET idx == IndexOf(fs.args, TokTerminator) IN
         IF idx >= 1 THEN SubSeq(fs.args, idx + 1, Len(fs.args)) ELSE << >>

\* FlagSet.NextArgs, the name app.go calls SubArgs by
NextArgs(fs) == SubArgs(fs)

\* ---------------------------------------------------------------- struct tags
\* The option structs the model registers, by type name, and the flags their
\* tags declare (name -> kind).
StructTags(type) ==
    IF type = "GFilter" THEN (NameG :> "string")
    ELSE IF type = "XAction" THEN (NameX :> "string")
    ELSE << >>

\* StructVars returns an error for a struct it cannot bind (BadStruct has a
\* tagged field of a type no flag value supports)
StructVarsFails(type) == type = "BadStruct"

\* FlagSet.StructVars(p): one named flag per tagged field
StructVars(fs, type) ==
    [fs EXCEPT !.formal = StructTags(type) @@ fs.formal]

FilterValues == { [kind |-> "func", type |-> "Mw"], [kind |-> "struct", type |-> "GFilter"] }
ActionValues == { [kind |-> "func", type |-> "Fn"], [kind |-> "struct", type |-> "XAction"] }
\* what a registration call may be given: these, or a struct that cannot be bound
BadValue == [kind |-> "struct", type |-> "BadStruct"]

\* ---------------------------------------------------------------- command tree
NoAction == [kind |-> "none", type |-> "", cmd |-> 0, flagSet |-> NewFlagSet(TRUE)]
Root == 1

newCommand(parent, cmdName) ==
    [parent |-> parent, cmdName |-> cmdName, filters |-> << >>,
     action |-> NoAction, subcommands |-> << >>]

\* strings.TrimLeft(s, "-")
RECURSIVE TrimLeft(_)
TrimLeft(s) == IF Len(s) > 0 /\ s[1] = "-" THEN TrimLeft(Tail(s)) ELSE s

\* filepath.Base(os.Args[0]), the name the program was started by
ProgName == <<"p">>

\* App.SetCmdName on the tree: the root command is named cmdName, or after
\* the program when cmdName is empty, less the leading "-"s
SetCmdName(cs, cmdName) ==
    [cs EXCEPT ![Root].cmdName = TrimLeft(IF cmdName = Empty THEN ProgName ELSE cmdName)]

\* NewApp, and App.init: a root command with no name, then SetCmdName("")
NewApp == SetCmdName(<< newCommand(0, Empty) >>, Empty)

\* the filterObject AddFilter appends
filterObject(filter) ==
    [kind |-> filter.kind, type |-> filter.type,
     flagSet |-> IF filter.kind = "struct" THEN StructVars(NewFlagSet(TRUE), filter.type)
                 ELSE NewFlagSet(TRUE)]

\* Command.AddFilter on the command record: [panic, cmd]
AddFilter(cmd, filter) ==
    IF filter.kind = "struct" /\ StructVarsFails(filter.type)
    THEN [panic |-> TRUE, cmd |-> cmd]
    ELSE [panic |-> FALSE, cmd |-> [cmd EXCEPT !.filters = Append(@, filterObject(filter))]]

\* for _, filter := range filters { subCmd.AddFilter(filter) }
RECURSIVE AddFilters(_, _)
AddFilters(cmd, filters) ==
    IF filters = << >> THEN [panic |-> FALSE, cmd |-> cmd]
    ELSE LET r == AddFilter(cmd, Head(filters)) IN
         IF r.panic THEN r ELSE AddFilters(r.cmd, Tail(filters))

\* the outcomes of a registration call: it returns, it panics, or it enters
\* Command.pathString to build the panic message
RegOk(cs, sub) == [kind |-> "ok", commands |-> cs, text |-> "", sub |-> sub]
RegPanic(cs, text) == [kind |-> "panic", commands |-> cs, text |-> text, sub |-> 0]
RegPath(cs, text) == [kind |-> "path", commands |-> cs, text |-> text, sub |-> 0]

AddSubcommandUnlocked_NoActionCheck(cs, c, cmdName) ==
    IF cmdName = Empty THEN RegPanic(cs, "command name is empty")
    ELSE RegOk(cs, c)

\* Command.AddSubcommand before c.lock.Lock(): the test of c.action, whose
\* panic message is built by pathString, and the test of the name
AddSubcommandUnlocked(cs, c, cmdName) ==
    IF cs[c].action.kind # "none"
    THEN RegPath(cs, "action has been set, no subcommand can be set")
    ELSE IF cmdName = Empty THEN RegPanic(cs, "command name is empty")
    ELSE RegOk(cs, c)

\* Command.AddSubcommand from c.lock.Lock() to the deferred Unlock
AddSubcommandUnderLock(cs, c, cmdName, filters) ==
    IF cmdName \in DOMAIN cs[c].subcommands
    THEN RegPanic(cs, "action named already exists")
    ELSE LET id == Len(cs) + 1
             subCmd == AddFilters(newCommand(c, cmdName), filters)
         IN IF subCmd.panic THEN RegPanic(cs, "StructVars error")
            ELSE RegOk(Append([cs EXCEPT ![c].subcommands = (cmdName :> id) @@ @], subCmd.cmd), id)

\* Command.AddSubcommand, run from its first statement to its last with no
\* other call in between
AddSubcommand(cs, c, cmdName, filters) ==
    IF AddSubcommandUnlocked(cs, c, cmdName).kind # "ok"
    THEN AddSubcommandUnlocked(cs, c, cmdName)
    ELSE AddSubcommandUnderLock(cs, c, cmdName, filters)

\* the actionObject SetAction stores
actionObject(c, action) ==
    [kind |-> action.kind, type |-> action.type, cmd |-> c,
     flagSet |-> IF action.kind = "struct" THEN StructVars(NewFlagSet(TRUE), action.type)
                 ELSE NewFlagSet(TRUE)]

\* Command.SetAction up to the making of the actionObject: the test of
\* len(c.subcommands), whose panic message is built by pathString, and the
\* panic of StructVars
SetActionCheck(cs, c, action) ==
    IF Cardinality(DOMAIN cs[c].subcommands) > 0
    THEN RegPath(cs, "some subcommands have been set, no action can be set")
    ELSE IF action.kind = "struct" /\ StructVarsFails(action.type)
    THEN RegPanic(cs, "StructVars error")
    ELSE RegOk(cs, c)

\* Command.SetAction: c.action = &obj
SetActionStore(cs, c, action) == RegOk([cs EXCEPT ![c].action = actionObject(c, action)], c)

\* Command.SetAction, run from its first statement to its last with no other
\* call in between
SetAction(cs, c, action) ==
    IF SetActionCheck(cs, c, action).kind # "ok"
    THEN SetActionCheck(cs, c, action)
    ELSE SetActionStore(cs, c, action)

\* Command.AddSubaction: AddSubcommand(...).SetAction(action), run with no
\* other call in between
AddSubaction(cs, c, cmdName, action, filters) ==
    LET r == AddSubcommand(cs, c, cmdName, filters) IN
    IF r.kind = "ok" THEN SetAction(r.commands, r.sub, action) ELSE r

\* the names from the root down to c, by the parent references
RECURSIVE PathNames(_, _)
PathNames(cs, c) ==
    IF cs[c].parent = 0 THEN << cs[c].cmdName >>
    ELSE Append(PathNames(cs, cs[c].parent), cs[c].cmdName)

Reverse(s) == [i \in 1..Len(s) |-> s[Len(s) + 1 - i]]

NumFilters(cs) ==
    LET RECURSIVE sum(_)
        sum(i) == IF i = 0 THEN 0 ELSE Len(cs[i].filters) + sum(i - 1)
    IN sum(Len(cs))

\* what the path buffer of Command.path may hold before the runtime gives up
PathBufLimit == 2 * MaxCmds

NoMsg == [text |-> "", path |-> << >>]
\* what a call returned: its outcome and, for a call that broke the
\* action/subcommand rule, the command it was made on and the panic message
Returned(op, c, outcome, violation, msg) ==
    [op |-> op, cmd |-> IF violation THEN c ELSE 0, outcome |-> outcome,
     violation |-> violation, msg |-> msg]

\* no call runs concurrently with another
NoCalls == calls = << >> /\ heap = << >> /\ locks = << >>

\* ---------------------------------------------------------------- registration
\* AddSubcommand, AddSubaction, AddFilter and SetAction, called from the
\* goroutines of calls on the commands of one tree. A call advances by one
\* step at each read or write of a field of a command that another call may
\* write; what lies between two such accesses is local to the call and
\* belongs to the step. bare records that the call made such an access
\* without holding Command.lock.
NoValue == [kind |-> "none", type |-> ""]
NoReg == [op |-> "", cmd |-> 0, cmdName |-> Empty, value |-> NoValue, filters |-> << >>,
          pc |-> "idle", outcome |-> "", bare |-> FALSE, text |-> "", p |-> << >>]

RegFilterValues == FilterValues \cup { BadValue }
RegActionValues == ActionValues \cup { BadValue }
FilterLists == { << >> } \cup { <<f>> : f \in RegFilterValues }
CmdNames == { NameA, NameB, Empty }
\* AddSubaction passes its filters on to AddSubcommand, which is called with
\* every list above; here none or one that binds
SubactionFilterLists == { << >>, << [kind |-> "struct", type |-> "GFilter"] >> }

\* the calls a goroutine makes when no other call is in progress
RegOps ==
    { [op |-> "AddSubcommand", cmdName |-> n, value |-> NoValue, filters |-> fs]
        : n \in CmdNames, fs \in FilterLists }
    \cup { [op |-> "AddSubaction", cmdName |-> n, value |-> a, filters |-> fs]
        : n \in CmdNames, a \in RegActionValues, fs \in SubactionFilterLists }
    \cup { [op |-> "AddFilter", cmdName |-> Empty, value |-> NoValue, filters |-> <<f>>]
        : f \in RegFilterValues }
    \cup { [op |-> "SetAction", cmdName |-> Empty, value |-> a, filters |-> << >>]
        : a \in RegActionValues }

\* the calls the goroutines make at the same time
LockOps ==
    { [op |-> "AddSubcommand", cmdName |-> n, value |-> NoValue, filters |-> << >>]
        : n \in { NameA, NameB } }
    \cup { [op |-> "AddSubaction", cmdName |-> NameA,
            value |-> [kind |-> "func", type |-> "Fn"], filters |-> << >>] }
    \cup { [op |-> "AddFilter", cmdName |-> Empty, value |-> NoValue,
            filters |-> << [kind |-> "func", type |-> "Mw"] >>] }
    \cup { [op |-> "SetAction", cmdName |-> Empty, value |-> a, filters |-> << >>]
        : a \in ActionValues }

\* the commands and the filters that the calls in progress may yet add
Adding(t) ==
    IF calls[t].op \in { "AddSubcommand", "AddSubaction" } /\ calls[t].pc \in { "enter", "lock", "locked" }
    THEN 1 ELSE 0
RECURSIVE PendingCmds(_)
PendingCmds(t) == IF t = 0 THEN 0 ELSE Adding(t) + PendingCmds(t - 1)
RECURSIVE PendingFilters(_)
PendingFilters(t) == IF t = 0 THEN 0 ELSE Len(calls[t].filters) + PendingFilters(t - 1)

\* the tree stays within the bounds whatever the call o and the calls in
\* progress do
Fits(o) ==
    /\ Len(commands) + PendingCmds(Len(calls))
          + (IF o.op \in { "AddSubcommand", "AddSubaction" } THEN 1 ELSE 0) <= MaxCmds
    /\ NumFilters(commands) + PendingFilters(Len(calls)) + Len(o.filters) <= MaxRegFilters

\* no call has exhausted the memory of the process
Alive == \A t \in DOMAIN calls : calls[t].pc # "oom"

\* the goroutine t calls o on the command c
Begin(t, c, o) ==
    /\ Alive
    /\ Fits(o)
    /\ calls' = [calls EXCEPT ![t] =
                    [NoReg EXCEPT !.op = o.op, !.cmd = c, !.cmdName = o.cmdName,
                                  !.value = o.value, !.filters = o.filters,
                                  !.pc = CASE o.op = "AddFilter" -> "lock"
                                           [] o.op = "SetAction" -> "check"
                                           [] OTHER -> "enter"]]
    /\ UNCHANGED <<commands, notFound, validator, fset, last, heap, locks>>

\* a goroutine that is in no call makes any of the calls on any command
RegBegin ==
    \E t \in DOMAIN calls :
        /\ calls[t].pc \in { "idle", "done" }
        /\ \E c \in 1..Len(commands), o \in RegOps : Begin(t, c, o)

\* each goroutine makes one call
LockBegin ==
    \E t \in DOMAIN calls :
        /\ calls[t].pc = "idle"
        /\ \E c \in 1..Len(commands), o \in LockOps : Begin(t, c, o)

\* the call t moves to pc after an access made without the lock (bare) or
\* with it
Goto(t, pc, bare) == calls' = [calls EXCEPT ![t].pc = pc, ![t].bare = @ \/ bare]

\* the call t returns or panics
Ends(t, bare, outcome, violation, msg) ==
    /\ calls' = [calls EXCEPT ![t] =
                    [NoReg EXCEPT !.pc = "done", !.op = calls[t].op, !.cmd = calls[t].cmd,
                                  !.outcome = outcome, !.bare = calls[t].bare \/ bare]]
    /\ last' = Returned(calls[t].op, calls[t].cmd, outcome, violation, msg)

\* the call t enters Command.pathString to build the message of its panic
EntersPath(t, text) ==
    /\ calls' = [calls EXCEPT ![t].pc = "path", ![t].text = text, ![t].bare = TRUE,
                              ![t].filters = << >>]
    /\ last' = last

\* AddSubcommand: if c.action != nil { panic(...) } and the test of the name,
\* before the lock is taken
AddSubcommandEnter ==
    \E t \in DOMAIN calls :
        /\ calls[t].pc = "enter"
        /\ LET r == AddSubcommandUnlocked(commands, calls[t].cmd, calls[t].cmdName) IN
           CASE r.kind = "path" -> EntersPath(t, r.text)
             [] r.kind = "panic" -> Ends(t, TRUE, "panic", FALSE, [text |-> r.text, path |-> << >>])
             [] OTHER -> Goto(t, "lock", TRUE) /\ last' = last
        /\ UNCHANGED <<commands, notFound, validator, fset, heap, locks>>

\* c.lock.Lock() of AddSubcommand and of AddFilter
LockStep ==
    \E t \in DOMAIN calls :
        /\ calls[t].pc = "lock"
        /\ locks[calls[t].cmd] = 0
        /\ locks' = [locks EXCEPT ![calls[t].cmd] = t]
        /\ Goto(t, "locked", FALSE)
        /\ UNCHANGED <<commands, notFound, validator, fset, last, heap>>

\* what c.lock and the locks of the commands of cs are after the Unlock
Unlocked(c, cs) == [i \in 1..Len(cs) |-> IF i = c \/ i > Len(locks) THEN 0 ELSE locks[i]]

\* AddSubcommand under the lock, to the deferred Unlock: the name is looked
\* up, the child is made and given its filters, and it is stored. AddSubaction
\* goes on to SetAction on the child that AddSubcommand returned.
AddSubcommandLocked ==
    \E t \in DOMAIN calls :
        /\ calls[t].op \in { "AddSubcommand", "AddSubaction" } /\ calls[t].pc = "locked"
        /\ LET r == AddSubcommandUnderLock(commands, calls[t].cmd, calls[t].cmdName,
                                           calls[t].filters) IN
           /\ commands' = r.commands
           /\ locks' = Unlocked(calls[t].cmd, r.commands)
           /\ CASE r.kind = "panic" -> Ends(t, FALSE, "panic", FALSE, [text |-> r.text, path |-> << >>])
                [] r.kind = "ok" /\ calls[t].op = "AddSubcommand" -> Ends(t, FALSE, "ok", FALSE, NoMsg)
                [] OTHER -> /\ calls' = [calls EXCEPT ![t].pc = "check", ![t].cmd = r.sub,
                                                      ![t].filters = << >>]
                            /\ last' = last
        /\ UNCHANGED <<notFound, validator, fset, heap>>

\* AddFilter under the lock, to the deferred Unlock:
\* c.filters = append(c.filters, &obj)
AddFilterLocked ==
    \E t \in DOMAIN calls :
        /\ calls[t].op = "AddFilter" /\ calls[t].pc = "locked"
        /\ LET b == AddFilter(commands[calls[t].cmd], calls[t].filters[1]) IN
           /\ commands' = [commands EXCEPT ![calls[t].cmd] = b.cmd]
           /\ IF b.panic
              THEN Ends(t, FALSE, "panic", FALSE, [text |-> "StructVars error", path |-> << >>])
              ELSE Ends(t, FALSE, "ok", FALSE, NoMsg)
        /\ locks' = Unlocked(calls[t].cmd, commands)
        /\ UNCHANGED <<notFound, validator, fset, heap>>

\* SetAction: if len(c.subcommands) > 0 { panic(...) } and the making of the
\* actionObject; no lock is taken
SetActionRead ==
    \E t \in DOMAIN calls :
        /\ calls[t].pc = "check"
        /\ LET r == SetActionCheck(commands, calls[t].cmd, calls[t].value) IN
           CASE r.kind = "path" -> EntersPath(t, r.text)
             [] r.kind = "panic" -> Ends(t, TRUE, "panic", FALSE, [text |-> r.text, path |-> << >>])
             [] OTHER -> Goto(t, "write", TRUE) /\ last' = last
        /\ UNCHANGED <<commands, notFound, validator, fset, heap, locks>>

\* SetAction: c.action = &obj; c.updateUsageLocked()
SetActionWrite ==
    \E t \in DOMAIN calls :
        /\ calls[t].pc = "write"
        /\ commands' = SetActionStore(commands, calls[t].cmd, calls[t].value).commands
        /\ Ends(t, TRUE, "ok", FALSE, NoMsg)
        /\ UNCHANGED <<notFound, validator, fset, heap, locks>>

\* one iteration of the loop of Command.path, entered from pathString by the
\* panic of AddSubcommand or SetAction: at the root it returns the reversed
\* buffer and the call panics; elsewhere it appends two names and loops on
\* the same command, until the runtime gives up and the process is killed.
PathStep ==
    \E t \in DOMAIN calls :
        /\ calls[t].pc = "path"
        /\ UNCHANGED <<commands, notFound, validator, fset, heap, locks>>
        /\ LET c == commands[calls[t].cmd] IN
           IF c.parent = 0
           THEN Ends(t, TRUE, "panic", TRUE,
                     [text |-> calls[t].text, path |-> Reverse(Append(calls[t].p, c.cmdName))])
           ELSE IF Len(calls[t].p) + 2 > PathBufLimit
           THEN /\ calls' = [calls EXCEPT ![t].pc = "oom", ![t].p = << >>]
                /\ last' = Returned(calls[t].op, calls[t].cmd, "killed", TRUE, NoMsg)
           ELSE /\ calls' = [calls EXCEPT ![t].p = @ \o << c.cmdName, commands[c.parent].cmdName >>]
                /\ last' = last

\* the calls are made by one goroutine, one after the other
InitReg ==
    /\ commands = NewApp
    /\ notFound = FALSE
    /\ validator = FALSE
    /\ fset = NewFlagSet(FALSE)
    /\ last = Returned("NewApp", Root, "ok", FALSE, NoMsg)
    /\ calls = << NoReg >>
    /\ heap = << >>
    /\ locks = << 0 >>

NextReg ==
    \/ RegBegin
    \/ AddSubcommandEnter
    \/ LockStep
    \/ AddSubcommandLocked
    \/ AddFilterLocked
    \/ SetActionRead
    \/ SetActionWrite
    \/ PathStep

SpecReg == InitReg /\ [][NextReg]_vars

\* the calls are made by MaxCalls goroutines at the same time
InitLock ==
    /\ commands = NewApp
    /\ notFound = FALSE
    /\ validator = FALSE
    /\ fset = NewFlagSet(FALSE)
    /\ last = Returned("NewApp", Root, "ok", FALSE, NoMsg)
    /\ calls = [t \in 1..MaxCalls |-> NoReg]
    /\ heap = << >>
    /\ locks = << 0 >>

NextLock ==
    \/ LockBegin
    \/ AddSubcommandEnter
    \/ LockStep
    \/ AddSubcommandLocked
    \/ AddFilterLocked
    \/ SetActionRead
    \/ SetActionWrite
    \/ PathStep

SpecLock == InitLock /\ [][NextLock]_vars

\* ---------------------------------------------------------------- Parse on a flag set
ParseTokens == { TokA, Tok1, TokTerminator, TokB, Tok2, TokV, TokU }
ArgLists == UNION { [1..k -> ParseTokens] : k \in 0..MaxArgs }

\* the flag sets parsed: flags a and b take a string, v is a boolean; string
\* non-flags are declared at the indexes idxs
RECURSIVE NonVars(_, _)
NonVars(fs, idxs) ==
    IF idxs = {} THEN fs
    ELSE LET i == CHOOSE k \in idxs : TRUE IN NonVars(NonVar(fs, i, "string").fs, idxs \ {i})

TestFlagSet(continueOnUndefined, idxs) ==
    NonVars(DefineFlag(DefineFlag(DefineFlag(NewFlagSet(continueOnUndefined),
                NameA, "string").fs, NameB, "string").fs, NameV, "bool").fs, idxs)

\* the definitions made on the flag set before it is parsed: a again, as a
\* boolean, and u, which the flag set does not define when it is made; a
\* non-flag at a negative index and at index 0
VarDefs == { << NameA, "bool" >>, << NameU, "string" >> }
NonVarIndexes == { 0 - 1, 0 }

\* a call that defines a flag or a non-flag has returned or panicked with d
DefineReturn(op, d) ==
    /\ fset' = d.fs
    /\ last' = [op |-> op, arguments |-> << >>, err |-> d.panic]
    /\ UNCHANGED <<commands, notFound, validator, conc>>

\* f.Init(name, errorHandling), in either mode, before Parse or after it
InitCall ==
    \E continueOnUndefined \in BOOLEAN :
        /\ fset' = Init(fset, continueOnUndefined)
        /\ last' = [op |-> "Init", arguments |-> << >>, err |-> NoErr]
        /\ UNCHANGED <<commands, notFound, validator, conc>>

\* f.Var(value, name, usage), on a flag set the base scanner has not been
\* through
VarCall ==
    /\ ~fset.parsed
    /\ \E d \in VarDefs : DefineReturn("Var", DefineFlag(fset, d[1], d[2]))

\* f.NonVar(value, index, usage)
NonVarCall ==
    /\ ~fset.parsed
    /\ \E index \in NonVarIndexes : DefineReturn("NonVar", NonVar(fset, index, "string"))

\* Parse has returned r
ParseReturn(args, r) ==
    /\ fset' = r.fs
    /\ last' = [op |-> "Parse", arguments |-> args, err |-> r.err]
    /\ UNCHANGED <<commands, notFound, validator, conc>>

\* FlagSet.Parse on a flag set the base scanner has not been through
ParseCall ==
    /\ ~fset.parsed
    /\ \E args \in ArgLists : ParseReturn(args, Parse(fset, args))

InitParse ==
    /\ commands = NewApp
    /\ notFound = FALSE
    /\ validator = FALSE
    /\ fset \in { TestFlagSet(m, {}) : m \in BOOLEAN }
    /\ last = [op |-> "NewFlagSet", arguments |-> << >>, err |-> NoErr]
    /\ NoCalls

NextParse ==
    \/ InitCall
    \/ VarCall
    \/ NonVarCall
    \/ ParseCall

SpecParse == InitParse /\ [][NextParse]_vars

\* ---------------------------------------------------------------- Parse on spelled-out flags
\* the same call on lists of the spellings of a flag with its value (-a 1,
\* -a=1, --a 1, --a=1, -v=0, --v=0), the undefined flags u, h and help and
\* the bare tokens x, y, z; non-flags are declared at no index or at 0 and 2
\* only
SpellTokens ==
    { TokA, TokAEq1, TokAA, TokAAEq1, TokVEq0, TokVVEq0, TokU, TokH, TokHelpEq1,
      Tok1, BareX, BareY, BareZ }
SpellLists == UNION { [1..k -> SpellTokens] : k \in 0..MaxSpell }
SpellNonFormalSets == { {}, {0, 2} }

SpellCall ==
    /\ ~fset.parsed
    /\ \E args \in SpellLists : ParseReturn(args, Parse(fset, args))

InitSpell ==
    /\ commands = NewApp
    /\ notFound = FALSE
    /\ validator = FALSE
    /\ fset \in { TestFlagSet(m, idxs) : m \in BOOLEAN, idxs \in SpellNonFormalSets }
    /\ last = [op |-> "NewFlagSet", arguments |-> << >>, err |-> NoErr]
    /\ NoCalls

NextSpell ==
    \/ InitCall
    \/ SpellCall

SpecSpell == InitSpell /\ [][NextSpell]_vars

\* ---- what a Parse call was given, read back from the state after it
\* the flag set as it was before the call
Fresh(fs) ==
    [fs EXCEPT !.terminated = FALSE, !.actual = << >>, !.nonActual = << >>,
               !.args = << >>, !.parsed = FALSE]
\* the argument list once the leading bare token is stripped
Scanned == SplitArgs(last.arguments).args
\* flag scanning met a bare "--": the pre-scan in ignore-undefined mode, the
\* base scanner otherwise
ReachedTerminator ==
    IF fset.isContinueOnUndefined
    THEN tidyArgs(Scanned, DOMAIN fset.formal).terminated
    ELSE BaseParse(Fresh(fset), Scanned).stop = "terminator"
\* the tokens after that "--"
AfterTerminator ==
    IF fset.isContinueOnUndefined
    THEN tidyArgs(Scanned, DOMAIN fset.formal).nonFlagArgs
    ELSE BaseParse(Fresh(fset), Scanned).fs.args
BeforeTerminator == SubSeq(Scanned, 1, Len(Scanned) - Len(AfterTerminator) - 1)
\* the names of the flag tokens of a list
FlagNames(args) ==
    { tidyOneArg(<<args[i]>>).name : i \in { j \in 1..Len(args) : tidyOneArg(<<args[j]>>).seen } }

\* C3 (as stated): once Parse has met a bare "--" while scanning flags, in
\* either mode, no flag that occurs only after it is bound and the remaining
\* arguments are exactly the tokens after it.
C3_TerminatorEndsScanning ==
    (last.op = "Parse" /\ last.err = NoErr /\ ReachedTerminator)
        => /\ DOMAIN fset.actual \subseteq FlagNames(BeforeTerminator)
           /\ SubArgs(fset) = AfterTerminator

\* ---------------------------------------------------------------- route resolution
NoFault == [code |-> 0, by |-> ""]
Thrown(code, by) == [code |-> code, by |-> by]
\* a panic whose value is not a Status: a runtime error, or panic(v), in a
\* user body
Panicked == [code |-> StatusUserFault + 1, by |-> "panic"]

\* a ValidateFunc of the application: it rejects an option struct that
\* holds the value "2"
ValidatorOk(opts) == \A n \in DOMAIN opts : opts[n] # Tok2

LogEntry(op, c, idx, ok) == [op |-> op, cmd |-> c, idx |-> idx, ok |-> ok]

checkParsed_ValidateFirst(hasValidator, c, idx, p) ==
    IF hasValidator /\ ~ValidatorOk(p.fs.actual)
    THEN [fs |-> p.fs, fault |-> Thrown(StatusValidateFailed, "route"),
          log |-> << LogEntry("validate", c, idx, FALSE), LogEntry("parse", c, idx, p.err = NoErr) >>]
    ELSE [fs |-> p.fs,
          fault |-> IF p.err # NoErr THEN Thrown(StatusParseFailed, "route") ELSE NoFault,
          log |-> (IF hasValidator THEN << LogEntry("validate", c, idx, TRUE) >> ELSE << >>)
                  \o << LogEntry("parse", c, idx, p.err = NoErr) >>]

parseAndValidate_ValidateFirst(hasValidator, c, idx, proto, type, arguments) ==
    checkParsed_ValidateFirst(hasValidator, c, idx,
        Parse(StructVars(NewFlagSet(proto.isContinueOnUndefined), type), arguments))

\* CheckStatus(err, StatusParseFailed), the validator if one is set,
\* CheckStatus(err, StatusValidateFailed), on what Parse returned
checkParsed(hasValidator, c, idx, p) ==
    IF p.err # NoErr
    THEN [fs |-> p.fs, fault |-> Thrown(StatusParseFailed, "route"),
          log |-> << LogEntry("parse", c, idx, FALSE) >>]
    ELSE IF hasValidator /\ ~ValidatorOk(p.fs.actual)
    THEN [fs |-> p.fs, fault |-> Thrown(StatusValidateFailed, "route"),
          log |-> << LogEntry("parse", c, idx, TRUE), LogEntry("validate", c, idx, FALSE) >>]
    ELSE [fs |-> p.fs, fault |-> NoFault,
          log |-> << LogEntry("parse", c, idx, TRUE) >>
                  \o (IF hasValidator THEN << LogEntry("validate", c, idx, TRUE) >> ELSE << >>)]

\* the lines newFilters and newAction share: a new flag set with the
\* prototype's error handling, StructVars on a new option struct, Parse,
\* and the two checks
parseAndValidate(hasValidator, c, idx, proto, type, arguments) ==
    checkParsed(hasValidator, c, idx,
        Parse(StructVars(NewFlagSet(proto.isContinueOnUndefined), type), arguments))

\* a Filter of the chain: the registered function, or the new option struct
FilterInstance(kind, c, idx, opts) == [kind |-> kind, cmd |-> c, idx |-> idx, opts |-> opts]

\* if len(args) > len(nargs) { args = nargs }
shorter(args, nargs) == IF Len(args) > Len(nargs) THEN nargs ELSE args

\* Command.newFilters: [r, args, fault, log]
RECURSIVE newFiltersLoop(_, _, _, _, _, _)
newFiltersParsed_Stripped(cs, hasValidator, c, arguments, i, acc, b) ==
    IF b.fault.code # 0
    THEN [acc EXCEPT !.fault = b.fault, !.log = @ \o b.log]
    ELSE newFiltersLoop(cs, hasValidator, c, shorter(acc.args, NextArgs(b.fs)), i + 1,
             [acc EXCEPT !.r = Append(@, FilterInstance("struct", c, i, b.fs.actual)),
                         !.args = shorter(@, NextArgs(b.fs)),
                         !.log = @ \o b.log])

\* the struct-backed branch of the loop once parse and validation returned b
newFiltersParsed(cs, hasValidator, c, arguments, i, acc, b) ==
    IF b.fault.code # 0
    THEN [acc EXCEPT !.fault = b.fault, !.log = @ \o b.log]
    ELSE newFiltersLoop(cs, hasValidator, c, arguments, i + 1,
             [acc EXCEPT !.r = Append(@, FilterInstance("struct", c, i, b.fs.actual)),
                         !.args = shorter(@, NextArgs(b.fs)),
                         !.log = @ \o b.log])

newFiltersLoop(cs, hasValidator, c, arguments, i, acc) ==
    IF i > Len(cs[c].filters) THEN acc
    ELSE IF cs[c].filters[i].kind = "func"
    THEN newFiltersLoop(cs, hasValidator, c, arguments, i + 1,
                        [acc EXCEPT !.r = Append(@, FilterInstance("func", c, i, << >>))])
    ELSE newFiltersParsed(cs, hasValidator, c, arguments, i, acc,
             parseAndValidate(hasValidator, c, i, cs[c].filters[i].flagSet,
                              cs[c].filters[i].type, arguments))

newFilters(cs, hasValidator, c, arguments) ==
    newFiltersLoop(cs, hasValidator, c, arguments, 1,
                   [r |-> << >>, args |-> arguments, fault |-> NoFault, log |-> << >>])

\* an Action to handle: the registered function, or the new option struct
ActionInstance(kind, c, opts) == [kind |-> kind, cmd |-> c, opts |-> opts]
NoHandler == ActionInstance("nil", 0, << >>)
NotFoundHandler == ActionInstance("notFound", 0, << >>)

\* the struct-backed branch of newAction once parse and validation returned b
newActionParsed(c, cmdline, b) ==
    IF b.fault.code # 0
    THEN [action |-> NoHandler, args |-> cmdline, found |-> FALSE, fault |-> b.fault, log |-> b.log]
    ELSE [action |-> ActionInstance("struct", c, b.fs.actual), args |-> NextArgs(b.fs),
          found |-> TRUE, fault |-> NoFault, log |-> b.log]

\* Command.newAction: [action, args, found, fault, log]
newAction(cs, hasValidator, c, cmdline) ==
    IF cs[c].action.kind = "none"
    THEN [action |-> NoHandler, args |-> cmdline, found |-> FALSE, fault |-> NoFault, log |-> << >>]
    ELSE IF cs[c].action.kind = "func"
    THEN [action |-> ActionInstance("func", cs[c].action.cmd, << >>),
          args |-> SplitArgs(cmdline).args,
          found |-> TRUE, fault |-> NoFault, log |-> << >>]
    ELSE newActionParsed(cs[c].action.cmd, cmdline,
             parseAndValidate(hasValidator, cs[c].action.cmd, 0, cs[c].action.flagSet,
                              cs[c].action.type, cmdline))

Resolution(filters, action, cmdPath, found, fault, log, missAt) ==
    [filters |-> filters, action |-> action, cmdPath |-> cmdPath, found |-> found,
     fault |-> fault, log |-> log, missAt |-> missAt]

noSubcommand_AsFound(hasNotFound, c, filters, cmdPath, log) ==
    IF hasNotFound
    THEN Resolution(filters, NotFoundHandler, cmdPath, TRUE, NoFault, log, c)
    ELSE Resolution(<< >>, NoHandler, cmdPath, FALSE, Thrown(StatusNotFound, "route"), log, c)

noSubcommand_AlwaysThrows(hasNotFound, c, filters, cmdPath, log) ==
    Resolution(<< >>, NoHandler, cmdPath, FALSE, Thrown(StatusNotFound, "route"), log, c)

\* findFiltersAndAction when c has no subcommand of the name: the not-found
\* handler of the App, bare, or the StatusNotFound throw
noSubcommand(hasNotFound, c, filters, cmdPath, log) ==
    IF hasNotFound
    THEN Resolution(<< >>, NotFoundHandler, cmdPath, FALSE, NoFault, log, c)
    ELSE Resolution(<< >>, NoHandler, cmdPath, FALSE, Thrown(StatusNotFound, "route"), log, c)

\* Command.findFiltersAndAction
RECURSIVE findFiltersAndAction(_, _, _, _, _, _)
\* what is returned once the subcommand has returned sub: its filters after
\* those of this command when it found an action, none otherwise
joinSubcommand(filters, log, sub) ==
    IF sub.found
    THEN [sub EXCEPT !.filters = filters \o @, !.log = log \o @]
    ELSE [sub EXCEPT !.filters = << >>, !.log = log \o @]

\* from the lookup of the subcommand on; cmdPath has the name appended
findSubcommand(cs, hasNotFound, hasValidator, c, cmdPath, filters, log, s) ==
    IF s.name \notin DOMAIN cs[c].subcommands
    THEN noSubcommand(hasNotFound, c, filters, cmdPath, log)
    ELSE joinSubcommand(filters, log,
             findFiltersAndAction(cs, hasNotFound, hasValidator,
                                  cs[c].subcommands[s.name], cmdPath, s.args))

\* from SplitArgs on: s is what it returned
findSplit(cs, hasNotFound, hasValidator, c, cmdPath0, filters, log, s) ==
    findSubcommand(cs, hasNotFound, hasValidator, c,
                   IF s.name # Empty THEN Append(cmdPath0, s.name) ELSE cmdPath0,
                   filters, log, s)

\* once newAction has returned a
findAfterAction(cs, hasNotFound, hasValidator, c, cmdPath0, f, a) ==
    IF a.fault.code # 0
    THEN Resolution(<< >>, NoHandler, cmdPath0, FALSE, a.fault, f.log \o a.log, 0)
    ELSE IF a.found THEN Resolution(f.r, a.action, cmdPath0, TRUE, NoFault, f.log \o a.log, 0)
    ELSE findSplit(cs, hasNotFound, hasValidator, c, cmdPath0, f.r, f.log \o a.log,
                   SplitArgs(a.args))

\* once newFilters has returned f
findAfterFilters(cs, hasNotFound, hasValidator, c, cmdPath0, f) ==
    IF f.fault.code # 0 THEN Resolution(<< >>, NoHandler, cmdPath0, FALSE, f.fault, f.log, 0)
    ELSE findAfterAction(cs, hasNotFound, hasValidator, c, cmdPath0, f,
                         newAction(cs, hasValidator, c, f.args))

findFiltersAndAction(cs, hasNotFound, hasValidator, c, cmdPath0, arguments) ==
    findAfterFilters(cs, hasNotFound, hasValidator, c, cmdPath0,
                     newFilters(cs, hasValidator, c, arguments))

\* a handler: the action alone, or a filter around the next handler
Bare(action) == [t |-> "action", action |-> action]
Around(filter, next) == [t |-> "filter", filter |-> filter, next |-> next]

RECURSIVE wrapAscending(_, _, _)
wrapAscending(filters, i, actionFunc) ==
    IF i > Len(filters) THEN actionFunc
    ELSE wrapAscending(filters, i + 1, Around(filters[i], actionFunc))
wrapFilters_Ascending(filters, actionFunc) == wrapAscending(filters, 1, actionFunc)

\* the loop of App.route: from the last filter to the first, each closure
\* calls its filter with the handler built so far as next
RECURSIVE wrapDescending(_, _, _)
wrapDescending(filters, i, actionFunc) ==
    IF i < 1 THEN actionFunc
    ELSE wrapDescending(filters, i - 1, Around(filters[i], actionFunc))
wrapFilters(filters, actionFunc) == wrapDescending(filters, Len(filters), actionFunc)

Context_RemainingArgs(arguments, cmdPath) ==
    [args |-> SplitArgs(arguments).args, cmdPath |-> cmdPath]

\* &Context{args: arguments, cmdPath: cmdPath, Context: ctx}
Context(arguments, cmdPath) == [args |-> arguments, cmdPath |-> cmdPath]

\* App.route once findFiltersAndAction has returned f
routeResolved(arguments, f) ==
    [res |-> f,
     handle |-> IF f.found THEN wrapFilters(f.filters, Bare(f.action)) ELSE Bare(f.action),
     ctx |-> Context(arguments, f.cmdPath)]

\* App.route: the handler and the Context, or the fault routing threw
route(cs, hasNotFound, hasValidator, arguments) ==
    routeResolved(arguments,
        findFiltersAndAction(cs, hasNotFound, hasValidator, Root, << cs[Root].cmdName >>, arguments))

\* ---------------------------------------------------------------- invocation
\* what the body of a filter does: it calls next once and returns, returns
\* without calling next, or, before calling next, throws a Status
\* (ThrowStatus, CheckStatus) or panics with another value; an action or the
\* not-found handler returns, throws or panics
FilterBodies == { "next", "skip", "throw", "panic" }
ActionBodies == { "ok", "throw", "panic" }

Event(ev, cmd, idx, ctx) == [ev |-> ev, cmd |-> cmd, idx |-> idx, args |-> ctx.args, cmdPath |-> ctx.cmdPath]

\* handle(ctxObj): the events the bodies produce, and the fault one threw;
\* depth counts the filters entered so far
RECURSIVE Invoke(_, _, _, _)
\* a filter whose body called next, once next has returned n
AfterNext(enter, exit, n) ==
    IF n.fault.code # 0 THEN [events |-> << enter >> \o n.events, fault |-> n.fault]
    ELSE [events |-> << enter >> \o n.events \o << exit >>, fault |-> NoFault]

\* filter.Filter(c, nextHandle) with the given body
InvokeFilter(h, ctx, bodies, depth, body, enter, exit) ==
    IF body = "throw" THEN [events |-> << enter >>, fault |-> Thrown(StatusUserFault, "user")]
    ELSE IF body = "panic" THEN [events |-> << enter >>, fault |-> Panicked]
    ELSE IF body = "skip" THEN [events |-> << enter, exit >>, fault |-> NoFault]
    ELSE AfterNext(enter, exit, Invoke(h.next, ctx, bodies, depth + 1))

Invoke(h, ctx, bodies, depth) ==
    IF h.t = "action"
    THEN [events |-> << Event(IF h.action.kind = "notFound" THEN "notfound" ELSE "action",
                              h.action.cmd, 0, ctx) >>,
          fault |-> CASE bodies.action = "throw" -> Thrown(StatusUserFault, "user")
                      [] bodies.action = "panic" -> Panicked
                      [] OTHER -> NoFault]
    ELSE InvokeFilter(h, ctx, bodies, depth, bodies.filters[depth + 1],
                      Event("enter", h.filter.cmd, h.filter.idx, ctx),
                      Event("exit", h.filter.cmd, h.filter.idx, ctx))

\* status.Catch(&stat), run as Exec unwinds: recover(), and the Status it
\* leaves in stat. A Status that was thrown is returned as it is; any other
\* value is made into a Status; nothing is thrown again.
Catch(fault) ==
    [code |-> IF fault.by = "panic" THEN StatusUnknown ELSE fault.code, escaped |-> FALSE]

\* the number of filters of a handler
RECURSIVE Depth(_)
Depth(h) == IF h.t = "action" THEN 0 ELSE 1 + Depth(h.next)

\* the return of App.Exec: run is what routing and the handler produced;
\* the deferred Catch runs when one of them panicked, and stat is nil when
\* neither did
Deferred(res, run) ==
    [stat |-> IF run.fault.code # 0 THEN Catch(run.fault) ELSE [code |-> 0, escaped |-> FALSE],
     thrown |-> run.fault, events |-> run.events, res |-> res]

Handle_CatchAfterRoute(r, bodies) ==
    IF r.res.fault.code # 0
    THEN [stat |-> [code |-> 0, escaped |-> TRUE], thrown |-> r.res.fault,
          events |-> << >>, res |-> r.res]
    ELSE Deferred(r.res, Invoke(r.handle, r.ctx, bodies, 0))

\* the rest of App.Exec once route has returned r: handle(ctxObj), and the
\* Catch deferred before route was called, which a fault of route and a
\* fault of the handler both unwind to
Handle(r, bodies) ==
    Deferred(r.res, IF r.res.fault.code # 0 THEN [events |-> << >>, fault |-> r.res.fault]
                    ELSE Invoke(r.handle, r.ctx, bodies, 0))

\* App.Exec: [stat, thrown, events, res]
Exec(cs, hasNotFound, hasValidator, arguments, bodies) ==
    Handle(route(cs, hasNotFound, hasValidator, arguments), bodies)

\* ---------------------------------------------------------------- Exec on a built tree
\* Exec changes nothing of the App, so a second Exec in a row reaches the
\* states the first one reaches: ExecCall is taken from the states the
\* construction or a setter left, and last holds its Status until then.
\* The trees Exec runs on are built by the registration calls above: the
\* commands a, a b, ... nested MaxDepth deep at most, filters on any of them,
\* an action (or none) on the deepest, and possibly a second command b with
\* a function action under the root.
LevelNames == << NameA, NameB, NameC, NameA >>
FilterSeqs == UNION { [1..k -> FilterValues] : k \in 0..MaxFilters }
RECURSIVE SumLen(_, _)
SumLen(fl, k) == IF k = 0 THEN 0 ELSE Len(fl[k]) + SumLen(fl, k - 1)
FilterPlans(d) == { fl \in [1..(d + 1) -> FilterSeqs] : SumLen(fl, d + 1) <= MaxFilters }
LeafActions == ActionValues \cup { [kind |-> "none", type |-> ""] }

RECURSIVE Descend(_, _, _, _)
Descend(cs, fl, k, d) ==
    IF k > d THEN cs
    ELSE Descend(AddSubcommand(cs, k, LevelNames[k], fl[k + 1]).commands, fl, k + 1, d)

\* SetAction on the deepest command, and AddSubaction of b on the root
WithLeaf(cs, d, leaf) == IF leaf.kind = "none" THEN cs ELSE SetAction(cs, d + 1, leaf).commands
WithSibling(cs, sibling) ==
    IF sibling THEN AddSubaction(cs, Root, NameB, [kind |-> "func", type |-> "Fn"], << >>).commands
    ELSE cs

BuildTree(d, fl, leaf, sibling) ==
    WithSibling(WithLeaf(Descend([NewApp EXCEPT ![Root] = AddFilters(@, fl[1]).cmd], fl, 1, d),
                         d, leaf),
                sibling)

Trees ==
    { BuildTree(0, fl, leaf, FALSE) : fl \in FilterPlans(0), leaf \in LeafActions }
    \cup UNION { { BuildTree(d, fl, leaf, sib) : fl \in FilterPlans(d), leaf \in LeafActions, sib \in BOOLEAN }
                 : d \in 1..MaxDepth }

ExecArgs ==
    { << >>,
      << NameA >>,
      << NameB >>,
      << NameC >>,
      << NameA, NameB >>,
      << NameA, NameB, TokX, Tok1 >>,
      << NameA, TokX, Tok2 >>,
      << NameA, TokTerminator, NameB >>,
      << TokG >>,
      << TokG, Tok1, TokTerminator, NameA, NameB >>,
      << TokG, Tok2, TokTerminator, NameA >> }

\* the bodies of a chain of n filters; a body that is never reached, behind a
\* filter that does not call next, does nothing and is left at its default
BodiesFor(n) ==
    { b \in [filters : [1..n -> FilterBodies], action : ActionBodies] :
        \A i \in 1..n : b.filters[i] # "next" =>
            /\ b.action = "ok"
            /\ \A j \in (i + 1)..n : b.filters[j] = "next" }

\* the App as route reads it while it holds the read lock
\* the Exec call: idle, inside route, or between the return of route and its
\* own return
ExecIdle == [pc |-> "idle", arguments |-> << >>, app |-> << >>, r |-> << >>]
\* the call of UsageText: idle, or inside App.init
UsageIdle == [pc |-> "idle"]
\* no body is run
NoBodies == [filters |-> << >>, action |-> "ok"]

\* Exec has returned e; app is the App as route read it
ExecReturn(arguments, app, bodies, e) ==
    /\ last' = [op |-> "Exec", arguments |-> arguments, app |-> app, bodies |-> bodies,
                stat |-> e.stat, thrown |-> e.thrown, events |-> e.events, res |-> e.res]
    /\ calls' = [calls EXCEPT ![1] = ExecIdle]
    /\ UNCHANGED <<commands, notFound, validator, fset, heap, locks>>

\* route has returned r and released the read lock. When it threw, the
\* deferred Catch returns the Status; otherwise Exec goes on to handle(ctxObj)
ExecRouted(arguments, app, r) ==
    IF r.res.fault.code # 0
    THEN ExecReturn(arguments, app, NoBodies, Handle(r, NoBodies))
    ELSE /\ calls' = [calls EXCEPT ![1] = [pc |-> "handle", arguments |-> arguments,
                                           app |-> app, r |-> r]]
         /\ UNCHANGED <<commands, notFound, validator, fset, last, heap, locks>>

\* App.Exec is called: route takes the read lock of the App and evaluates
\* one of a.Command and a.cmdName
ExecCall ==
    /\ last.op # "Exec"
    /\ calls[1].pc = "idle"
    /\ \E arguments \in ExecArgs :
          calls' = [calls EXCEPT ![1] = [pc |-> "route", arguments |-> arguments,
                                         app |-> [commands |-> commands], r |-> << >>]]
    /\ UNCHANGED <<commands, notFound, validator, fset, last, heap, locks>>

\* the tree and the name of its root that route may read: App.init writes
\* a.Command with no lock held, so one of the two reads of
\* a.Command.findFiltersAndAction([]string{a.cmdName}, arguments) may be of
\* the root before the write and the other of the root after it, in
\* either order
RouteViews ==
    { [calls[1].app.commands EXCEPT ![Root].cmdName = commands[Root].cmdName],
      [commands EXCEPT ![Root].cmdName = calls[1].app.commands[Root].cmdName] }

AppRead(view) == [commands |-> view, notFound |-> notFound, validator |-> validator]

\* route evaluates the other of the two, resolves, and releases the read lock
ExecRoute ==
    /\ calls[1].pc = "route"
    /\ \E view \in RouteViews :
          ExecRouted(calls[1].arguments, AppRead(view),
                     route(view, notFound, validator, calls[1].arguments))

\* handle(ctxObj), with no lock held, and the return of Exec: the user
\* bodies behave in any of the ways they can
ExecHandler ==
    /\ calls[1].pc = "handle"
    /\ \E bodies \in BodiesFor(Depth(calls[1].r.handle)) :
          ExecReturn(calls[1].arguments, calls[1].app, bodies, Handle(calls[1].r, bodies))

\* a call is inside App.route, where it holds the read lock of the App; the
\* setters of the App take the write lock and wait for it
InRoute == \E i \in DOMAIN calls : calls[i].pc \in { "route", "filters", "action" }

\* the names SetCmdName is called with
CmdNameInputs == { Empty, <<"-", "-", "q">>, <<"-">> }

\* App.SetCmdName(cmdName)
SetCmdNameCall ==
    \E cmdName \in CmdNameInputs :
        /\ ~InRoute
        /\ commands' = SetCmdName(commands, cmdName)
        /\ last' = Returned("SetCmdName", Root, "ok", FALSE, NoMsg)
        /\ UNCHANGED <<notFound, validator, fset, conc>>

\* App.UsageText(): a.CmdName(), under the read lock. An App whose command
\* name is empty is taken for one that NewApp did not make, and init is
\* entered; otherwise UsageText goes on to read the text.
UsageTextCall ==
    /\ calls[2].pc = "idle"
    /\ calls' = [calls EXCEPT ![2].pc = IF commands[Root].cmdName = Empty THEN "init" ELSE "text"]
    /\ UNCHANGED <<commands, notFound, validator, fset, last, heap, locks>>

\* App.init: a.Command = newCommand(a, "", ""), with no lock held
UsageTextInit ==
    /\ calls[2].pc = "init"
    /\ commands' = << newCommand(0, Empty) >>
    /\ calls' = [calls EXCEPT ![2].pc = "SetCmdName"]
    /\ UNCHANGED <<notFound, validator, fset, last, heap, locks>>

\* the setters App.init calls after SetCmdName, each under the write lock
\* of the App; they write the name, the version, the date and the usage
\* template of the App, none of which routing reads
InitSetters == << "SetName", "SetVersion", "SetCompiled", "SetUsageTemplate" >>

\* App.init: a.SetCmdName(""), under the write lock
UsageTextNamed ==
    /\ calls[2].pc = "SetCmdName"
    /\ ~InRoute
    /\ commands' = SetCmdName(commands, Empty)
    /\ calls' = [calls EXCEPT ![2].pc = InitSetters[1]]
    /\ UNCHANGED <<notFound, validator, fset, last, heap, locks>>

\* App.init: the next of a.SetName(""), a.SetVersion(""), a.SetCompiled(...),
\* a.SetUsageTemplate(...), one lock-held section at a step
UsageTextSetter ==
    \E k \in DOMAIN InitSetters :
        /\ calls[2].pc = InitSetters[k]
        /\ ~InRoute
        /\ calls' = [calls EXCEPT ![2].pc = IF k < Len(InitSetters) THEN InitSetters[k + 1]
                                            ELSE "text"]
        /\ UNCHANGED <<commands, notFound, validator, fset, last, heap, locks>>

\* App.UsageText: return a.usageText, read under the read lock
UsageTextRead ==
    /\ calls[2].pc = "text"
    /\ calls' = [calls EXCEPT ![2] = UsageIdle]
    /\ last' = Returned("UsageText", Root, "ok", FALSE, NoMsg)
    /\ UNCHANGED <<commands, notFound, validator, fset, heap, locks>>

\* App.SetNotFound(fn), fn a function or nil
SetNotFoundCall ==
    \E fn \in BOOLEAN :
        /\ ~InRoute
        /\ notFound' = fn
        /\ last' = Returned("SetNotFound", Root, "ok", FALSE, NoMsg)
        /\ UNCHANGED <<commands, validator, fset, conc>>

\* App.SetValidator(validator), a function or nil
SetValidatorCall ==
    \E fn \in BOOLEAN :
        /\ ~InRoute
        /\ validator' = fn
        /\ last' = Returned("SetValidator", Root, "ok", FALSE, NoMsg)
        /\ UNCHANGED <<commands, notFound, fset, conc>>

InitExec ==
    /\ commands \in Trees
    /\ notFound = FALSE
    /\ validator = FALSE
    /\ fset = NewFlagSet(FALSE)
    /\ last = Returned("NewApp", Root, "ok", FALSE, NoMsg)
    /\ calls = << ExecIdle, UsageIdle >>
    /\ heap = << >>
    /\ locks = << >>

NextExec ==
    \/ ExecCall
    \/ ExecRoute
    \/ ExecHandler
    \/ SetNotFoundCall
    \/ SetValidatorCall

SpecExec == InitExec /\ [][NextExec]_vars

\* ---------------------------------------------------------------- Exec on a named App
\* The same trees and the same Exec, with the calls that name the App in
\* place of the setters of the not-found handler and the validator. UsageText
\* on an App whose name is empty runs init, which replaces the root command
\* without the lock and then names it.
NextName ==
    \/ ExecCall
    \/ ExecRoute
    \/ ExecHandler
    \/ SetCmdNameCall
    \/ UsageTextCall
    \/ UsageTextInit
    \/ UsageTextNamed
    \/ UsageTextSetter
    \/ UsageTextRead

SpecName == InitExec /\ [][NextName]_vars

\* ---------------------------------------------------------------- concurrent Exec calls
\* Exec called from MaxCalls goroutines on one App whose root has a
\* struct-backed filter and a struct-backed action. route takes only the read
\* lock of the App, so the calls interleave: each one builds its filter
\* (newFilters), then its action (newAction), then runs the handler, which
\* reads the option structs it was given.

\* an option struct: its type, whether it is the one AddFilter or SetAction
\* bound the prototype flag set to, and the values stored in its fields
NewStruct(type, proto) == [type |-> type, proto |-> proto, fields |-> << >>]

DeepCopy_Prototype(h, type) ==
    [heap |-> h, addr |-> CHOOSE a \in 1..Len(h) : h[a].type = type /\ h[a].proto]

\* factory.DeepCopy and actionFactory.DeepCopy: reflect.New(elemType), a
\* struct at an address no one else holds; [heap, addr]
DeepCopy(h, type) == [heap |-> Append(h, NewStruct(type, FALSE)), addr |-> Len(h) + 1]

IsoFilter == [kind |-> "struct", type |-> "GFilter"]
IsoAction == [kind |-> "struct", type |-> "XAction"]
\* NewApp, AddFilter(&GFilter{}), SetAction(&XAction{}), and the two structs
\* the registration calls bound the prototype flag sets to
IsoTree == SetAction(<< AddFilter(NewApp[Root], IsoFilter).cmd >>, Root, IsoAction).commands
IsoHeap == << NewStruct(IsoFilter.type, TRUE), NewStruct(IsoAction.type, TRUE) >>
\* the last two lists fail to parse, the first for the filter (-g has no
\* value), the second for the action (-x has none)
IsoArgs ==
    { << TokG, Tok1 >>,
      << TokG, Tok1, TokTerminator, TokX, Tok2 >>,
      << TokG, Tok2, TokTerminator, TokX, Tok1 >>,
      << TokG >>,
      << TokG, Tok1, TokTerminator, TokX >> }

NoCall == [pc |-> "idle", arguments |-> << >>, validator |-> FALSE, cmdline |-> << >>,
           filter |-> 0, action |-> 0, stat |-> 0, seen |-> << >>, overlapped |-> FALSE]

\* App.Exec is called with an argument list, and route takes the read lock
\* of the App: the validator cannot change until route returns
ExecBegin ==
    \E i \in DOMAIN calls :
        /\ calls[i].pc = "idle"
        /\ \E arguments \in IsoArgs :
              calls' = [calls EXCEPT ![i].pc = "filters", ![i].arguments = arguments,
                                     ![i].validator = validator]
        /\ UNCHANGED <<commands, notFound, validator, fset, last, heap, locks>>

\* CheckStatus panics out of route and Exec: the deferred Catch makes the
\* fault the Status Exec returns, and the handler is never called
Faulted(i, fault) == [calls EXCEPT ![i].pc = "done", ![i].stat = fault.code]

\* newFilters, the struct-backed branch: newObj is the struct DeepCopy
\* returned as d, b what StructVars, Parse and the checks returned; the
\* values bound are stored in the fields of newObj, and r[i] = newObj is
\* reached when neither check panics
FilterBuilt(i, d, b) ==
    /\ heap' = [d.heap EXCEPT ![d.addr].fields = b.fs.actual]
    /\ calls' = IF b.fault.code # 0 THEN Faulted(i, b.fault)
                ELSE [calls EXCEPT ![i].pc = "action", ![i].filter = d.addr,
                                   ![i].cmdline = shorter(calls[i].arguments, NextArgs(b.fs))]
    /\ UNCHANGED <<commands, notFound, validator, fset, last, locks>>

ExecNewFilters ==
    \E i \in DOMAIN calls :
        /\ calls[i].pc = "filters"
        /\ FilterBuilt(i, DeepCopy(heap, commands[Root].filters[1].type),
                       parseAndValidate(validator, Root, 1, commands[Root].filters[1].flagSet,
                                        commands[Root].filters[1].type, calls[i].arguments))

\* newAction, the struct-backed branch, likewise
ActionBuilt(i, d, b) ==
    /\ heap' = [d.heap EXCEPT ![d.addr].fields = b.fs.actual]
    /\ calls' = IF b.fault.code # 0 THEN Faulted(i, b.fault)
                ELSE [calls EXCEPT ![i].pc = "handle", ![i].action = d.addr]
    /\ UNCHANGED <<commands, notFound, validator, fset, last, locks>>

ExecNewAction ==
    \E i \in DOMAIN calls :
        /\ calls[i].pc = "action"
        /\ ActionBuilt(i, DeepCopy(heap, commands[Root].action.type),
                       parseAndValidate(validator, Root, 0, commands[Root].action.flagSet,
                                        commands[Root].action.type, calls[i].cmdline))

\* handle(ctxObj): the filter and the action read their option structs;
\* overlapped says another call had built a struct and not yet returned
ExecHandle ==
    \E i \in DOMAIN calls :
        /\ calls[i].pc = "handle"
        /\ calls' = [calls EXCEPT
                ![i].pc = "done",
                ![i].seen = [filter |-> heap[calls[i].filter].fields,
                             action |-> heap[calls[i].action].fields],
                ![i].overlapped = \E j \in DOMAIN calls \ {i} : calls[j].pc \in { "action", "handle" }]
        /\ UNCHANGED <<commands, notFound, validator, fset, last, heap, locks>>

InitIso ==
    /\ commands = IsoTree
    /\ notFound = FALSE
    /\ validator = FALSE
    /\ fset = NewFlagSet(FALSE)
    /\ last = Returned("SetAction", Root, "ok", FALSE, NoMsg)
    /\ calls = [i \in 1..MaxCalls |-> NoCall]
    /\ heap = IsoHeap
    /\ locks = << >>

NextIso ==
    \/ SetValidatorCall
    \/ ExecBegin
    \/ ExecNewFilters
    \/ ExecNewAction
    \/ ExecHandle

SpecIso == InitIso /\ [][NextIso]_vars

\* ---------------------------------------------------------------- properties of Exec
IsExec == last.op = "Exec"
\* Exec resolved an action and routing threw nothing
Resolved == IsExec /\ last.res.found /\ last.res.fault.code = 0
\* resolution ended at a command that has no action and no child of the name
Missed == IsExec /\ last.res.missAt # 0

Label(x) == << x.cmd, x.idx >>
Labels(seq) == [i \in 1..Len(seq) |-> Label(seq[i])]
Step(ev, x) == << ev, x.cmd, x.idx >>
Steps(events) == [i \in 1..Len(events) |-> Step(events[i].ev, events[i])]

\* the filters registered on the commands from the root down to c, in
\* registration order at each
RECURSIVE ChainOf(_, _)
ChainOf(cs, c) ==
    LET own == [i \in 1..Len(cs[c].filters) |-> << c, i >>] IN
    IF cs[c].parent = 0 THEN own ELSE ChainOf(cs, cs[c].parent) \o own

AllCallNext == \A i \in 1..Len(last.bodies.filters) : last.bodies.filters[i] = "next"

\* C1: when every filter of the resolved chain F1..Fn calls next once and the
\* action returns, the bodies run in the order F1-entry .. Fn-entry, action,
\* Fn-exit .. F1-exit, and nothing else runs.
C1_OnionOrder ==
    (Resolved /\ AllCallNext /\ last.bodies.action = "ok") =>
        LET F == last.res.filters
            n == Len(F)
        IN Steps(last.events) =
              [i \in 1..n |-> Step("enter", F[i])]
              \o << << "action", last.res.action.cmd, 0 >> >>
              \o [i \in 1..n |-> Step("exit", F[n + 1 - i])]

C1_Witness ==
    /\ Resolved /\ AllCallNext /\ last.bodies.action = "ok"
    /\ Len(last.res.filters) = 2
    /\ last.res.filters[1].cmd = Root
    /\ last.res.filters[2].cmd # Root
    /\ Len(last.events) = 5

\* the tree has the command a with the child a b, and a b has an action
HasAB ==
    /\ NameA \in DOMAIN last.app.commands[Root].subcommands
    /\ LET a == last.app.commands[Root].subcommands[NameA] IN
       /\ NameB \in DOMAIN last.app.commands[a].subcommands
       /\ last.app.commands[last.app.commands[a].subcommands[NameB]].action.kind # "none"
CmdAB == last.app.commands[last.app.commands[Root].subcommands[NameA]].subcommands[NameB]

\* C2 (as stated): with commands a and a b and any filters, function or
\* struct-backed, on the root, a and a b, Exec of [a, b, -x, 1] resolves the
\* action of a b, wrapped by the filters of the root, a and a b in that order.
C2_DeepestPath ==
    (IsExec /\ HasAB /\ last.arguments = << NameA, NameB, TokX, Tok1 >>) =>
        /\ Resolved
        /\ last.res.action.cmd = CmdAB
        /\ Labels(last.res.filters) = ChainOf(last.app.commands, CmdAB)

\* C4: resolution that ends at a command with no action and no child of the
\* next name gives StatusNotFound when the App has no not-found handler; with
\* one, the handler is what runs and a handler that returns gives code 0.
C4_UnknownCommand ==
    Missed =>
        /\ last.app.commands[last.res.missAt].action.kind = "none"
        /\ IF last.app.notFound
           THEN /\ Len(last.events) = 1 /\ last.events[1].ev = "notfound"
                /\ last.bodies.action = "ok" => last.stat.code = 0
           ELSE last.stat.code = StatusNotFound /\ last.events = << >>

C4_Witness ==
    /\ Missed /\ last.app.notFound /\ last.res.missAt # Root
    /\ last.stat.code = 0 /\ Len(last.events) = 1

\* C5: when resolution fails and a not-found handler is set, Exec runs that
\* handler once, with the argument list Exec was given, and no filter of any
\* command runs.
C5_NotFoundUnwrapped ==
    (Missed /\ last.app.notFound) =>
        /\ Steps(last.events) = << << "notfound", 0, 0 >> >>
        /\ last.events[1].args = last.arguments
        /\ \A i \in 1..Len(last.events) : last.events[i].ev \notin { "enter", "exit" }

C5_Witness ==
    /\ Missed /\ last.app.notFound
    /\ Len(last.app.commands[Root].filters) > 0
    /\ last.arguments # << >>
    /\ Len(last.events) = 1 /\ last.events[1].ev = "notfound"

\* C6: after a successful resolution Exec calls the assembled handler once,
\* and every filter and the action that run see the argument list Exec was
\* given and the names of the commands from the root to the resolved one.
C6_ContextArgsAndPath ==
    Resolved =>
        /\ last.events # << >>
        /\ Steps(last.events)[1] =
              IF last.res.filters # << >> THEN Step("enter", last.res.filters[1])
              ELSE << "action", last.res.action.cmd, 0 >>
        /\ \A i, j \in 1..Len(last.events) :
              Steps(last.events)[i] = Steps(last.events)[j] => i = j
        /\ \A i \in 1..Len(last.events) :
              /\ last.events[i].args = last.arguments
              /\ last.events[i].cmdPath = PathNames(last.app.commands, last.res.action.cmd)

C6_Witness ==
    /\ Resolved
    /\ last.arguments = << TokG, Tok1, TokTerminator, NameA, NameB >>
    /\ last.res.action.cmd = 3
    /\ \E i \in 1..Len(last.res.filters) : last.res.filters[i].kind = "struct"
    /\ \E i \in 1..Len(last.events) :
          last.events[i].ev = "action" /\ last.events[i].cmdPath = << ProgName, NameA, NameB >>

C8_ParseValidateShortCircuit ==
    IsExec =>
        LET log == last.res.log IN
        \A i \in 1..Len(log) :
            /\ (log[i].op = "parse" /\ ~log[i].ok) =>
                  /\ i = Len(log) /\ last.events = << >>
                  /\ last.stat.code = StatusParseFailed
            /\ (log[i].op = "validate" /\ ~log[i].ok) =>
                  /\ i = Len(log) /\ last.events = << >>
                  /\ last.stat.code = StatusValidateFailed
            /\ log[i].op = "validate" =>
                  /\ i > 1
                  /\ log[i - 1] = LogEntry("parse", log[i].cmd, log[i].idx, TRUE)

C8_Witness ==
    /\ IsExec /\ last.stat.code = StatusValidateFailed
    /\ Len(last.res.log) >= 2
    /\ last.res.log[Len(last.res.log)] .op = "validate"
    /\ last.events = << >>

\* a flag set of its own for the option struct of the type, parsed on args
ParsedAlone(type, args) == Parse(StructVars(NewFlagSet(TRUE), type), args).fs
\* the remainders the struct-backed filters of c report, each parsed alone on
\* the list args
Remainders(cs, c, args) ==
    { NextArgs(ParsedAlone(cs[c].filters[i].type, args)) :
        i \in { j \in 1..Len(cs[c].filters) : cs[c].filters[j].kind = "struct" } }
\* the shortest of them, or args when none is shorter than args
HandedOn(cs, c, args) ==
    IF \E r \in Remainders(cs, c, args) : Len(r) < Len(args)
    THEN CHOOSE r \in Remainders(cs, c, args) :
             \A q \in Remainders(cs, c, args) : Len(r) <= Len(q)
    ELSE args
\* the argument list the command c receives when resolution walks down to
\* it from the root: what its parent hands on, less the name of c
RECURSIVE Received(_, _)
Received(cs, c) ==
    IF cs[c].parent = 0 THEN last.arguments
    ELSE SplitArgs(HandedOn(cs, cs[c].parent, Received(cs, cs[c].parent))).args

\* C19: in a resolved chain every struct-backed filter holds the values of a
\* Parse, made on a flag set of its own, of the list its command received,
\* whatever other filters the command has; the struct-backed action holds
\* the values parsed from the shortest remainder its command's filters
\* report, or from the received list when none reports a shorter one.
C19_FiltersParseIndependently ==
    Resolved =>
        /\ \A i \in 1..Len(last.res.filters) :
              last.res.filters[i].kind = "struct" =>
                  last.res.filters[i].opts =
                      ParsedAlone(last.app.commands[last.res.filters[i].cmd].filters[last.res.filters[i].idx].type,
                                  Received(last.app.commands, last.res.filters[i].cmd)).actual
        /\ last.res.action.kind = "struct" =>
              last.res.action.opts =
                  ParsedAlone(last.app.commands[last.res.action.cmd].action.type,
                              HandedOn(last.app.commands, last.res.action.cmd,
                                       Received(last.app.commands, last.res.action.cmd))).actual

C19_Witness ==
    /\ Resolved
    /\ last.arguments = << TokG, Tok1, TokTerminator, NameA, NameB >>
    /\ Len(last.res.filters) = 2
    /\ \A i \in 1..2 :
          /\ last.res.filters[i].kind = "struct" /\ last.res.filters[i].cmd = Root
          /\ last.res.filters[i].opts = (NameG :> Tok1)
    /\ HandedOn(last.app.commands, Root, last.arguments) = << NameA, NameB >>
    /\ last.res.action.cmd # Root

\* ---------------------------------------------------------------- properties of registration
\* C9: after any sequence of registration calls, those that fault included,
\* no command has both an action and a subcommand.
C9_ActionXorSubcommands ==
    \A c \in 1..Len(commands) :
        ~(commands[c].action.kind # "none" /\ DOMAIN commands[c].subcommands # {})

C9_Witness ==
    /\ last.op \in { "AddSubcommand", "SetAction", "AddSubaction" }
    /\ last.violation /\ last.outcome = "panic"
    /\ \E c \in 1..Len(commands) : commands[c].action.kind # "none"
    /\ DOMAIN commands[Root].subcommands # {}

\* C10 (as stated): AddSubcommand on a command that has an action, and
\* SetAction on one that has subcommands, end in the configuration panic,
\* whose message holds the path of the command, for every command of the tree.
C10_ViolatingCallPanics ==
    last.violation =>
        /\ last.outcome # "killed"
        /\ last.outcome = "panic" => last.msg.path = PathNames(commands, last.cmd)

\* ---------------------------------------------------------------- properties of Parse
\* C11 (as stated): with non-flags declared at 0 and 2 only and the non-flag
\* tokens x, y, z left by flag scanning, index 0 is bound to x; in strict mode
\* index 2 stays unbound, in ignore-undefined mode it is bound to z.
C11_PositionalByIndex ==
    (/\ last.op = "Parse" /\ last.err = NoErr
     /\ DOMAIN fset.nonFormal = {0, 2}
     /\ ~fset.terminated /\ fset.args = << BareX, BareY, BareZ >>)
        => /\ 0 \in DOMAIN fset.nonActual /\ fset.nonActual[0] = BareX
           /\ IF fset.isContinueOnUndefined
              THEN 2 \in DOMAIN fset.nonActual /\ fset.nonActual[2] = BareZ
              ELSE 2 \notin DOMAIN fset.nonActual

\* a second flag set with the definitions of fset, given what NextArgs
\* returned after the first Parse
Reparsed == Parse(Fresh(fset), SubArgs(fset)).fs

Spellings(name, kind, value) ==
    { << <<"-">> \o name \o <<"=">> \o value >>,
      << <<"-", "-">> \o name \o <<"=">> \o value >> }
    \cup (IF kind = "bool" THEN { }
          ELSE { << <<"-">> \o name, value >>, << <<"-", "-">> \o name, value >> })
SpellValues == { <<"0">>, <<"1">> }
\* what a Parse left: its error, the flags bound and the remaining arguments
Outcome(fs, err) == [err |-> err, actual |-> fs.actual, args |-> fs.args]
OutcomeOf(r) == Outcome(r.fs, r.err)

\* C13 (as stated): the spellings of a defined flag with a value text,
\* parsed in strict or in ignore-undefined mode, all leave the same bound
\* value and the same remaining arguments.
C13_SpellingsEquivalent ==
    last.op = "Parse" =>
        \A name \in DOMAIN fset.formal, value \in SpellValues :
            last.arguments \in Spellings(name, fset.formal[name], value) =>
                \A s \in Spellings(name, fset.formal[name], value), m \in BOOLEAN :
                    OutcomeOf(Parse([Fresh(fset) EXCEPT !.isContinueOnUndefined = m], s))
                        = Outcome(fset, last.err)

\* the number of times the token x occurs in the list s
Count(s, x) == Cardinality({ i \in 1..Len(s) : s[i] = x })

\* C14 (as stated): in ignore-undefined mode the list handed to the base
\* scanner holds every token of the list Parse was given, each as many
\* times: the flags of undefined names and their values are in it too.
C14_NoTokenLost ==
    (/\ last.op = "Parse" /\ fset.isContinueOnUndefined
     /\ tidyArgs(Scanned, DOMAIN fset.formal).err = NoErr)
        => \A x \in ParseTokens :
              Count(tidied(tidyArgs(Scanned, DOMAIN fset.formal)), x) = Count(Scanned, x)

\* a bare token: one that does not start with "-"
IsBare(tok) == Len(tok) = 0 \/ tok[1] # "-"

\* The flags the flag-scanned prefix of an argument list supplies, by the
\* argument grammar: [vals, ok], vals the value text given last to each
\* defined flag met before the first bare token or terminator, ok whether
\* every one of them was given a well-formed value. A boolean flag has the
\* value of its inline form, or true; another flag its inline value or the
\* token after it; an undefined flag goes with its inline value or with the
\* bare token after it.
RECURSIVE Supplied(_, _, _)
SuppliedOne(r, args, formal, acc) ==
    IF ~r.seen THEN acc
    ELSE IF r.name \notin DOMAIN formal
    THEN Supplied(IF ~r.hasValue /\ Len(args) > 1 /\ IsBare(args[2]) THEN Tail(Tail(args))
                  ELSE Tail(args), formal, acc)
    ELSE IF formal[r.name] = "bool"
    THEN Supplied(Tail(args), formal,
                  [vals |-> (r.name :> (IF r.hasValue THEN r.value ELSE <<"t">>)) @@ acc.vals,
                   ok |-> acc.ok /\ (r.hasValue => r.value \in BoolTexts)])
    ELSE IF r.hasValue
    THEN Supplied(Tail(args), formal, [acc EXCEPT !.vals = (r.name :> r.value) @@ @])
    ELSE IF Len(args) > 1 /\ IsBare(args[2])
    THEN Supplied(Tail(Tail(args)), formal, [acc EXCEPT !.vals = (r.name :> args[2]) @@ @])
    ELSE [acc EXCEPT !.ok = FALSE]
Supplied(args, formal, acc) ==
    IF Len(args) = 0 THEN acc
    ELSE SuppliedOne(tidyOneArg(<< args[1] >>), args, formal, acc)
SuppliedTo(args, formal) == Supplied(args, formal, [vals |-> << >>, ok |-> TRUE])

\* C15 (as stated): in ignore-undefined mode, on a list that gives each
\* defined flag a well-formed value, Parse succeeds and every defined flag of
\* the flag-scanned prefix ends up bound to the value supplied for it.
C15_DefinedFlagsBound ==
    (/\ last.op = "Parse" /\ fset.isContinueOnUndefined
     /\ SuppliedTo(Scanned, fset.formal).ok)
        => /\ last.err = NoErr
           /\ \A n \in DOMAIN SuppliedTo(Scanned, fset.formal).vals :
                 /\ n \in DOMAIN fset.actual
                 /\ fset.actual[n]
                      = ValueSet(fset.formal[n], SuppliedTo(Scanned, fset.formal).vals[n]).v

\* Parse went on to the loop over the tokens the base scanner left
Walked ==
    /\ last.op = "Parse" /\ ~fset.terminated /\ Len(fset.args) > 0
    /\ last.err \in { NoErr, "non-flag defined but not provided", "invalid value for non-flag" }
\* the loop reaches the index k: at every index before k a non-flag is
\* declared and the token there is not "--"
WalkReaches(k) ==
    \A j \in 0..(k - 1) : j \in DOMAIN fset.nonFormal /\ fset.args[j + 1] # TokTerminator

\* C18 (as stated): a "--" the positional walk meets makes Parse fail in
\* strict mode and is not an error in ignore-undefined mode; in neither mode
\* is a token at an index where no non-flag is declared an error.
C18_TerminatorAmongPositionals ==
    Walked =>
        \A k \in 0..(Len(fset.args) - 1) :
            WalkReaches(k) =>
                /\ fset.args[k + 1] = TokTerminator =>
                      (IF fset.isContinueOnUndefined THEN last.err = NoErr ELSE last.err # NoErr)
                /\ (fset.args[k + 1] # TokTerminator /\ k \notin DOMAIN fset.nonFormal) =>
                      last.err = NoErr

\* C20 (as stated): in strict mode, after a base scan that succeeds and
\* leaves tokens, Parse marks the set terminated if and only if the scanner
\* stopped by consuming a bare "--"; when it stopped at a bare token, as
\* after a "--" taken as the value of a flag, a non-flag declared at index 0
\* is bound to that token.
C20_StrictTerminatorExact ==
    (/\ last.op = "Parse" /\ ~fset.isContinueOnUndefined
     /\ BaseParse(Fresh(fset), Scanned).err = NoErr
     /\ Len(fset.args) > 0)
        => /\ fset.terminated <=> BaseParse(Fresh(fset), Scanned).stop = "terminator"
           /\ (BaseParse(Fresh(fset), Scanned).stop = "nonflag" /\ 0 \in DOMAIN fset.nonFormal)
                 => 0 \in DOMAIN fset.nonActual

\* ---------------------------------------------------------------- properties of concurrent calls
\* what route gives, computed in one piece, on the arguments of the call
\* and with the validator the App had when the call took the read lock
Routed(i) == route(IsoTree, FALSE, calls[i].validator, calls[i].arguments)

\* the option structs a call was given
StructsOf(i) == { calls[i].filter, calls[i].action } \ {0}

\* C16: of any two Exec calls on one App, interleaved or one after the other,
\* each is given option structs of its own, which are not the prototypes; its
\* filter and action read the values bound from its own argument list; the
\* prototype structs and the command tree are never written.
C16_InvocationIsolation ==
    /\ \A i \in DOMAIN calls :
          /\ \A a \in StructsOf(i) : ~heap[a].proto
          /\ \A j \in DOMAIN calls \ {i} : StructsOf(i) \cap StructsOf(j) = {}
          /\ calls[i].pc = "done" =>
                /\ calls[i].stat = Routed(i).res.fault.code
                /\ calls[i].stat = 0 =>
                      calls[i].seen = [filter |-> Routed(i).res.filters[1].opts,
                                       action |-> Routed(i).res.action.opts]
    /\ \A a \in DOMAIN heap : heap[a].proto => heap[a].fields = << >>
    /\ calls # << >> => commands = IsoTree

C16_Witness ==
    /\ calls # << >>
    /\ calls[1].pc = "done" /\ calls[2].pc = "done"
    /\ calls[1].overlapped
    /\ calls[1].seen = [filter |-> (NameG :> Tok1), action |-> (NameX :> Tok2)]
    /\ calls[2].seen = [filter |-> (NameG :> Tok2), action |-> (NameX :> Tok1)]

\* C17 (as stated): AddSubcommand, AddFilter and SetAction read and write the
\* fields of a command only while they hold its lock, so that of an
\* AddSubcommand and a SetAction made concurrently on one command at most one
\* succeeds, and no command ends with both an action and a subcommand.
C17_RegistrationSerialized ==
    /\ \A c \in 1..Len(commands) :
          ~(commands[c].action.kind # "none" /\ DOMAIN commands[c].subcommands # {})
    /\ \A t, u \in DOMAIN calls :
          ~(/\ calls[t].op = "AddSubcommand" /\ calls[t].outcome = "ok"
            /\ calls[u].op = "SetAction" /\ calls[u].outcome = "ok"
            /\ calls[t].cmd = calls[u].cmd)
    /\ \A t \in DOMAIN calls : calls[t].outcome = "ok" => ~calls[t].bare

====
